---- MODULE Spec2Model ----
(***************************************************************************)
(* The LanceDB JSON-RPC worker of sebas-chan (packages/db): one worker     *)
(* process, its four tables, its embedding model's load state, and the     *)
(* response to the request it handled last, with the lines its loop has    *)
(* read and written.                                                       *)
(*                                                                         *)
(* Text is a sequence of one-character strings (<<"a", "b">> is "ab"), so  *)
(* that lower-casing, substring tests, SQL LIKE and regular-expression     *)
(* search are computed character by character.  Python's None, and a JSON  *)
(* value that is no text, are one-element sequences whose element is no    *)
(* character of the alphabet.                                              *)
(*                                                                         *)
(* Timestamps are integers (milliseconds).  A vector is abstracted to its  *)
(* width and a point on a line; the store's distance is the squared        *)
(* difference of two points (L2 on that line).                             *)
(***************************************************************************)
EXTENDS Integers, Sequences, FiniteSets, TLC

VARIABLES
    tables,      \* names of the tables that exist in the store
    state,       \* rows of the state table
    issues,      \* rows of the issues table
    pond,        \* rows of the pond table
    schedules,   \* rows of the schedules table
    available,   \* RuriEmbedding.available (is_loaded)
    clock,       \* the last reading of pd.Timestamp.now().floor('ms')
    resp,        \* run's local variable response, with the request it answers, from
                 \* handle_request's return until the line is written; Idle while
                 \* the loop waits in readline
    lastState,   \* history: the content of the last successful updateState since
                 \* initialization or clearDatabase (the empty text when none)
    stream,      \* history: the lines run has read from stdin and the lines it has
                 \* written to stdout, as far as they are recorded
    workers      \* per worker process: where it is in init_tables (pc), its local
                 \* existing_tables, and the tables it has warned about on stderr

vars == <<tables, state, issues, pond, schedules, available, clock, resp, lastState, stream,
          workers>>

----------------------------------------------------------------------------
(* Bounds of the model *)

MaxClock == 2
MaxPond == 2
MaxIssues == 2
MaxSched == 2
MaxLimit == 2
MaxOffset == 2
MaxLines == 3

----------------------------------------------------------------------------
(* Values *)

None == <<"<None>">>
NonText == <<"<object>">>

Truthy(v) == v # None /\ v # <<>>

ISSUES_TABLE == "issues"
STATE_TABLE == "state"
POND_TABLE == "pond"
SCHEDULES_TABLE == "schedules"
KNOWLEDGE_TABLE == "knowledge"
ALL_TABLES == {ISSUES_TABLE, STATE_TABLE, POND_TABLE, SCHEDULES_TABLE, KNOWLEDGE_TABLE}

\* the code of every error envelope of handle_request
INTERNAL_ERROR == -32603

\* RuriEmbedding.MODEL_CONFIGS['cl-nagoya/ruri-v3-30m']['dimension'], the default model
vector_dimension == 256

\* pd.Timestamp.now().floor('ms'): a reading no earlier than the last one
Now == clock..MaxClock

----------------------------------------------------------------------------
(* Text *)

Lower(c) == IF c = "A" THEN "a" ELSE IF c = "B" THEN "b" ELSE c

LowerStr(s) == [i \in 1..Len(s) |-> Lower(s[i])]

\* p occurs in s as a contiguous run of characters
IsSubstr(p, s) ==
    \E i \in 0..(Len(s) - Len(p)) : \A j \in 1..Len(p) : s[i + j] = p[j]

\* the text s contains q, letter case ignored
ContainsCI(s, q) == IsSubstr(LowerStr(q), LowerStr(s))

----------------------------------------------------------------------------
(* The response envelope of handle_request *)

\* {"jsonrpc": "2.0", "result": result, "id": request_id}
Result(op, req, result) ==
    [op |-> op, ok |-> TRUE, req |-> req, result |-> result]

\* {"jsonrpc": "2.0", "error": {"code": -32603, ...}, "id": request_id}: an
\* exception raised anywhere in the handler
Error(op, req, message) ==
    [op |-> op, ok |-> FALSE, req |-> req, code |-> INTERNAL_ERROR, message |-> message]

\* no response is waiting to be written: the loop is at sys.stdin.readline()
Idle == [op |-> "none"]
Reading == resp = Idle

\* run: the response is written to stdout and the loop goes back to readline
WriteResponse ==
    /\ resp # Idle
    /\ resp' = Idle
    /\ UNCHANGED <<tables, state, issues, pond, schedules, available, clock, lastState>>

----------------------------------------------------------------------------
(* Tables *)

MainRow(t) == [id |-> "main", content |-> <<>>, updated_at |-> t]

\* table.search().where("id = 'main'")
MainRows(rows) == SelectSeq(rows, LAMBDA r : r.id = "main")

\* init_tables in one worker: table_names() is read once, each missing table is
\* created empty, and the state table gets its "main" row when it has none.
\* stateRows are the rows of the state table when it exists.
InitTablesState(existing, stateRows, t) ==
    IF STATE_TABLE \notin existing
    THEN <<MainRow(t)>>
    ELSE IF MainRows(stateRows) = <<>>
         THEN Append(stateRows, MainRow(t))
         ELSE stateRows

InitTablesNames(existing) ==
    existing \cup {ISSUES_TABLE, STATE_TABLE, POND_TABLE, SCHEDULES_TABLE}

----------------------------------------------------------------------------
(* init_tables step by step, in worker processes that share the store *)

Workers == {1, 2}

\* str(e) of the ValueError create_table raises for a table that exists
AlreadyExists == "already exists"

\* db.create_table(name): whether it raises ValueError, and with which message
create_table(name) ==
    IF name \in tables
    THEN [raises |-> TRUE, message |-> AlreadyExists]
    ELSE [raises |-> FALSE, message |-> ""]

\* except ValueError as e: every message is raised again
ReraisedAlways(message) == TRUE

\* except ValueError as e: if "already exists" not in str(e): raise
Reraised(message) == message # AlreadyExists

\* where init_tables goes on after the state table, after the pond table and
\* after the issues table: the next table that existing_tables does not hold
\* is created, the state table that it holds is searched
AtSchedules(existing) == IF SCHEDULES_TABLE \in existing THEN "done" ELSE SCHEDULES_TABLE
AtPond(existing) == IF POND_TABLE \in existing THEN AtSchedules(existing) ELSE POND_TABLE
AtState(existing) == IF STATE_TABLE \in existing THEN "search" ELSE STATE_TABLE
AtIssues(existing) == IF ISSUES_TABLE \in existing THEN AtState(existing) ELSE ISSUES_TABLE

After(name, existing) ==
    IF name = ISSUES_TABLE THEN AtState(existing)
    ELSE IF name = POND_TABLE THEN AtSchedules(existing)
    ELSE "done"

\* a worker process before init_tables
Started == [pc |-> "table_names", existing |-> {}, warned |-> {}]

\* the workers after one has initialized the empty store and the other one
\* has started on the store the first one left
Initialized ==
    [w \in Workers |->
        [pc |-> "done",
         existing |-> IF w = 1 THEN {} ELSE InitTablesNames({}),
         warned |-> {}]]

\* the store before any worker: no table
InitStore ==
    /\ tables = {}
    /\ state = <<>>
    /\ issues = <<>>
    /\ pond = <<>>
    /\ schedules = <<>>
    /\ available = FALSE
    /\ clock = 0
    /\ lastState = <<>>
    /\ resp = [op |-> "none"]
    /\ stream = [read |-> <<>>, written |-> <<>>]
    /\ workers = [w \in Workers |-> Started]

\* existing_tables = self.db.table_names()
TableNames(w) ==
    /\ workers[w].pc = "table_names"
    /\ workers' = [workers EXCEPT ![w] = [@ EXCEPT !.existing = tables,
                                                   !.pc = AtIssues(tables)]]
    /\ UNCHANGED <<tables, state, issues, pond, schedules, available, clock, resp,
                   lastState, stream>>

\* the create_table of the issues, pond or schedules table, in its try
CreateTable(w) ==
    /\ workers[w].pc \in {ISSUES_TABLE, POND_TABLE, SCHEDULES_TABLE}
    /\ LET name == workers[w].pc
           next == After(workers[w].pc, workers[w].existing)
       IN  IF ~create_table(name).raises
           THEN /\ tables' = tables \cup {name}
                /\ workers' = [workers EXCEPT ![w] = [@ EXCEPT !.pc = next]]
           ELSE /\ UNCHANGED tables
                /\ workers' = [workers EXCEPT ![w] =
                      IF Reraised(create_table(name).message)
                      THEN [@ EXCEPT !.pc = "raised"]
                      ELSE [@ EXCEPT !.pc = next, !.warned = @ \cup {name}]]
    /\ UNCHANGED <<state, issues, pond, schedules, available, clock, resp, lastState, stream>>

\* the create_table of the state table: once created, the main row is added;
\* when it exists already, the table is searched for the main row
CreateStateTable(w) ==
    /\ workers[w].pc = STATE_TABLE
    /\ IF ~create_table(STATE_TABLE).raises
       THEN /\ tables' = tables \cup {STATE_TABLE}
            /\ workers' = [workers EXCEPT ![w] = [@ EXCEPT !.pc = "add"]]
       ELSE /\ UNCHANGED tables
            /\ workers' = [workers EXCEPT ![w] =
                  IF Reraised(create_table(STATE_TABLE).message)
                  THEN [@ EXCEPT !.pc = "raised"]
                  ELSE [@ EXCEPT !.pc = "search", !.warned = @ \cup {STATE_TABLE}]]
    /\ UNCHANGED <<state, issues, pond, schedules, available, clock, resp, lastState, stream>>

\* result = table.search().where("id = 'main'").limit(1).to_list()
SearchMain(w) ==
    /\ workers[w].pc = "search"
    /\ workers' = [workers EXCEPT ![w] =
          [@ EXCEPT !.pc = IF MainRows(state) = <<>>
                           THEN "add"
                           ELSE AtPond(workers[w].existing)]]
    /\ UNCHANGED <<tables, state, issues, pond, schedules, available, clock, resp,
                   lastState, stream>>

\* table.add([{"id": "main", "content": "", "updated_at": now}]), after the
\* worker's own create_table or after a search that found no main row
AddMain(w) ==
    /\ workers[w].pc = "add"
    /\ state' = Append(state, MainRow(clock))
    /\ workers' = [workers EXCEPT ![w] = [@ EXCEPT !.pc = AtPond(workers[w].existing)]]
    /\ UNCHANGED <<tables, issues, pond, schedules, available, clock, resp, lastState, stream>>

NextInit ==
    \/ \E w \in Workers : TableNames(w)
    \/ \E w \in Workers : CreateTable(w)
    \/ \E w \in Workers : CreateStateTable(w)
    \/ \E w \in Workers : SearchMain(w)
    \/ \E w \in Workers : AddMain(w)

\* the workers' init_tables interleaved, from the store without tables
SpecInit == InitStore /\ [][NextInit]_vars

----------------------------------------------------------------------------
(* The state after LanceDBWorker() on an empty store *)

Init ==
    /\ tables = InitTablesNames({})
    /\ state = InitTablesState({}, <<>>, 0)
    /\ issues = <<>>
    /\ pond = <<>>
    /\ schedules = <<>>
    /\ available = FALSE
    /\ clock = 0
    /\ lastState = <<>>
    /\ resp = Idle
    /\ stream = [read |-> <<>>, written |-> <<>>]
    /\ workers = Initialized

----------------------------------------------------------------------------
(* The embedding model *)

\* initialize that loads the model again when it is loaded already
initializeAgain(loaded, loads) ==
    [available |-> loads, success |-> loads, attempted |-> TRUE]

\* RuriEmbedding.initialize: True at once when the model is loaded; otherwise
\* the model is loaded, which succeeds or fails (the package or the model
\* files may be missing).  What it leaves in self.available, what it
\* returns, and whether it went to load the model.
initialize(loaded, loads) ==
    IF loaded
    THEN [available |-> TRUE, success |-> TRUE, attempted |-> FALSE]
    ELSE [available |-> loads, success |-> loads, attempted |-> TRUE]

\* init_model; the response carries, as a record of what the handler did,
\* whether the model was gone to be loaded
InitModel ==
    /\ Reading
    /\ \E loads \in BOOLEAN :
        LET done == initialize(available, loads)
        IN  /\ available' = done.available
            /\ resp' = Result("initModel", <<>>, done.success) @@ [attempted |-> done.attempted]
            /\ UNCHANGED <<tables, state, issues, pond, schedules, clock, lastState>>

\* ping
Ping ==
    /\ Reading
    /\ resp' = Result("ping", <<>>,
                      [status |-> "ok", model_loaded |-> available, tables |-> tables,
                       vector_dimension |-> vector_dimension])
    /\ UNCHANGED <<tables, state, issues, pond, schedules, available, clock, lastState>>

----------------------------------------------------------------------------
(* The state document *)

\* the values a caller can send as params.content: text, nothing, or a JSON
\* value the string column cannot hold
Contents == {<<>>, <<"a">>, <<"b">>, <<"a", "b">>, None, NonText}

\* table.add of a state row: the string column holds text and null
StateAddRaises(content) == content = NonText

\* get_state
GetState ==
    /\ Reading
    /\ resp' = Result("getState", <<>>,
                      IF MainRows(state) # <<>> THEN MainRows(state)[1].content ELSE <<>>)
    /\ UNCHANGED <<tables, state, issues, pond, schedules, available, clock, lastState>>

\* update_state: delete the main rows, then add the new one; an add that
\* raises leaves the delete in place
UpdateState ==
    /\ Reading
    /\ \E content \in Contents, t \in Now :
        LET deleted == SelectSeq(state, LAMBDA r : r.id # "main")
        IN  /\ clock' = t
            /\ IF StateAddRaises(content)
               THEN /\ state' = deleted
                    /\ resp' = Error("updateState", content, "add")
                    /\ UNCHANGED lastState
               ELSE /\ state' = Append(deleted,
                                       [id |-> "main", content |-> content, updated_at |-> t])
                    /\ resp' = Result("updateState", content, TRUE)
                    /\ lastState' = content
            /\ UNCHANGED <<tables, issues, pond, schedules, available>>

\* clear_database: drop every table of ALL_TABLES that exists, then init_tables
ClearDatabase ==
    /\ Reading
    /\ \E t \in Now :
        LET kept == tables \ ALL_TABLES
        IN  /\ tables' = InitTablesNames(kept)
            /\ state' = InitTablesState(kept, <<>>, t)
            /\ issues' = <<>>
            /\ pond' = <<>>
            /\ schedules' = <<>>
            /\ clock' = t
            /\ lastState' = <<>>
            /\ resp' = Result("clearDatabase", <<>>, TRUE)
            /\ UNCHANGED available

----------------------------------------------------------------------------
(* Sequences of rows *)

RECURSIVE Buckets(_, _, _)
\* the indices of key, those of the smallest key of ks first and in ascending
\* order among equal keys
Buckets(key, idx, ks) ==
    IF ks = {} THEN <<>>
    ELSE LET k == CHOOSE x \in ks : \A y \in ks : x <= y
         IN  SelectSeq(idx, LAMBDA i : key[i] = k) \o Buckets(key, idx, ks \ {k})

\* s in ascending order of key (key[i] is the key of s[i]); rows with equal
\* keys keep their order
SortByKey(s, key) ==
    LET order == Buckets(key, [i \in DOMAIN s |-> i], {key[i] : i \in DOMAIN s})
    IN  [p \in DOMAIN s |-> s[order[p]]]

Min(a, b) == IF a <= b THEN a ELSE b

\* the slice with its end taken as inclusive
SliceInclusive(s, from, to) == SubSeq(s, from + 1, Min(to + 1, Len(s)))

\* df.iloc[from:to) for 0 <= from <= to
Slice(s, from, to) == SubSeq(s, from + 1, Min(to, Len(s)))

\* .limit(n) of a scan
Limit(s, n) == SubSeq(s, 1, Min(n, Len(s)))

Max(a, b) == IF a >= b THEN a ELSE b

RECURSIVE RangeMin(_, _, _)
\* the smallest of ds[lo..hi]
RangeMin(ds, lo, hi) ==
    IF lo = hi THEN ds[lo]
    ELSE Min(RangeMin(ds, lo, (lo + hi) \div 2), RangeMin(ds, (lo + hi) \div 2 + 1, hi))

RECURSIVE RangeMax(_, _, _)
\* the largest of ds[lo..hi]
RangeMax(ds, lo, hi) ==
    IF lo = hi THEN ds[lo]
    ELSE Max(RangeMax(ds, lo, (lo + hi) \div 2), RangeMax(ds, (lo + hi) \div 2 + 1, hi))

\* Series.min() and Series.max() of a non-empty column
SeqMin(ds) == RangeMin(ds, 1, Len(ds))
SeqMax(ds) == RangeMax(ds, 1, Len(ds))

----------------------------------------------------------------------------
(* Schedules *)

\* pd.Timestamp.isoformat() and pd.Timestamp(text): a timestamp as text and back
IsoFormat(t) == <<"iso", t>>
ParseTimestamp(v) == v[2]
IsIsoText(v) == v # None /\ Len(v) = 2 /\ v[1] = "iso"

ScheduleIds == {<<"s", "1">>, <<"s", "2">>}
Statuses == {<<"active">>, <<"completed">>, <<"cancelled">>, <<"paused">>}
TimestampFields == {"created_at", "updated_at"}

\* what a caller sends as a schedule: id and created_at may be left out
\* (None), created_at comes as ISO text
ScheduleInputs ==
    [id : ScheduleIds \cup {None},
     status : Statuses,
     created_at : {None, IsoFormat(MaxClock)}]

\* the partial field sets of updateSchedule: none, a status, another id
ScheduleUpdates ==
    {<<>>} \cup {[status |-> st] : st \in Statuses} \cup {[id |-> <<"s", "2">>]}

\* db.open_table raises when the store has no table of that name
OpenTableRaises(name) == name \notin tables

\* table.search().where(f"id = '{schedule_id}'")
ScheduleRows(rows, id) == SelectSeq(rows, LAMBDA r : r.id = id)

\* get_schedule: the first row with the id, its timestamps as ISO text, or None
get_schedule(rows, id) ==
    IF ScheduleRows(rows, id) = <<>>
    THEN None
    ELSE LET r == ScheduleRows(rows, id)[1]
         IN  [r EXCEPT !.created_at = IsoFormat(r.created_at),
                       !.updated_at = IsoFormat(r.updated_at)]

\* add_schedule: no validation; a missing id is generated from the clock, the
\* timestamps given as text are parsed, the missing ones are read off the clock
AddSchedule ==
    /\ Reading
    /\ \E d \in ScheduleInputs, t \in Now :
        LET id == IF d.id = None THEN <<"schedule-", t>> ELSE d.id
            created == IF d.created_at = None THEN t ELSE ParseTimestamp(d.created_at)
            row == [id |-> id, status |-> d.status, created_at |-> created, updated_at |-> t]
        IN  /\ Len(schedules) < MaxSched
            /\ IF OpenTableRaises(SCHEDULES_TABLE)
               THEN /\ resp' = Error("addSchedule", d, "open_table")
                    /\ UNCHANGED <<schedules, clock>>
               ELSE /\ schedules' = Append(schedules, row)
                    /\ clock' = t
                    /\ resp' = Result("addSchedule", d, id)
            /\ UNCHANGED <<tables, state, issues, pond, available, lastState>>

\* getSchedule
GetSchedule ==
    /\ Reading
    /\ \E id \in ScheduleIds :
        /\ resp' = IF OpenTableRaises(SCHEDULES_TABLE)
                   THEN Error("getSchedule", id, "open_table")
                   ELSE Result("getSchedule", id, get_schedule(schedules, id))
        /\ UNCHANGED <<tables, state, issues, pond, schedules, available, clock, lastState>>

\* the filters of searchSchedules: a status or none; limit and offset are
\* left at their defaults, 100 and 0
ScheduleFilters == [status : {None, <<"active">>}]
SchedulesLimit == 100

\* search_schedules: the rows of the status, latest created first, the first
\* 100 of them, their timestamps as ISO text
search_schedules(rows, f) ==
    LET df == SelectSeq(rows, LAMBDA r : Truthy(f.status) => r.status = f.status)
        sorted == SortByKey(df, [i \in DOMAIN df |-> 0 - df[i].created_at])
        page == Slice(sorted, 0, 0 + SchedulesLimit)
    IN  [i \in DOMAIN page |->
            [page[i] EXCEPT !.created_at = IsoFormat(@), !.updated_at = IsoFormat(@)]]

SearchSchedules ==
    /\ Reading
    /\ \E f \in ScheduleFilters :
        /\ resp' = IF OpenTableRaises(SCHEDULES_TABLE)
                   THEN Error("searchSchedules", f, "open_table")
                   ELSE Result("searchSchedules", f, search_schedules(schedules, f))
        /\ UNCHANGED <<tables, state, issues, pond, schedules, available, clock, lastState>>

\* for key, value in updates.items(): existing[key] = value
Merge(existing, updates) ==
    [f \in DOMAIN existing \cup DOMAIN updates |->
        IF f \in DOMAIN updates THEN updates[f] ELSE existing[f]]

\* the timestamp fields that are text are parsed back
ParseFields(row) ==
    [f \in DOMAIN row |->
        IF f \in TimestampFields /\ IsIsoText(row[f]) THEN ParseTimestamp(row[f]) ELSE row[f]]

\* update_schedule: False when no row has the id; otherwise the first row with
\* the id is merged with the updates and re-stamped, the table is dropped, and
\* it is created again from the rows of the other ids and the merged row.
\* createFails: db.create_table raises (the store cannot write the new table);
\* the drop has been done by then.
UpdateSchedule ==
    /\ Reading
    /\ \E id \in ScheduleIds, updates \in ScheduleUpdates, t \in Now, createFails \in BOOLEAN :
        LET existing == get_schedule(schedules, id)
            merged == [ParseFields(Merge(existing, updates)) EXCEPT !.updated_at = t]
            df == SelectSeq(schedules, LAMBDA r : r.id # id)
            req == [id |-> id, updates |-> updates]
        IN  /\ IF OpenTableRaises(SCHEDULES_TABLE)
               THEN /\ resp' = Error("updateSchedule", req, "open_table")
                    /\ UNCHANGED <<tables, schedules, clock>>
               ELSE IF ScheduleRows(schedules, id) = <<>>
               THEN /\ resp' = Result("updateSchedule", req, FALSE)
                    /\ UNCHANGED <<tables, schedules, clock>>
               ELSE IF createFails
               THEN /\ tables' = tables \ {SCHEDULES_TABLE}
                    /\ schedules' = <<>>
                    /\ clock' = t
                    /\ resp' = Error("updateSchedule", req, "create_table")
               ELSE /\ schedules' = Append(df, merged)
                    /\ clock' = t
                    /\ resp' = Result("updateSchedule", req, TRUE)
                    /\ UNCHANGED tables
            /\ UNCHANGED <<state, issues, pond, available, lastState>>

\* the requests on the state document, with the two that report and change
\* the worker's own condition
NextState ==
    \/ Ping /\ UNCHANGED <<stream, workers>>
    \/ InitModel /\ UNCHANGED <<stream, workers>>
    \/ GetState /\ UNCHANGED <<stream, workers>>
    \/ UpdateState /\ UNCHANGED <<stream, workers>>
    \/ ClearDatabase /\ UNCHANGED <<stream, workers>>
    \/ WriteResponse /\ UNCHANGED <<stream, workers>>

SpecState == Init /\ [][NextState]_vars

\* the requests on the schedules
NextSched ==
    \/ AddSchedule /\ UNCHANGED <<stream, workers>>
    \/ GetSchedule /\ UNCHANGED <<stream, workers>>
    \/ UpdateSchedule /\ UNCHANGED <<stream, workers>>
    \/ SearchSchedules /\ UNCHANGED <<stream, workers>>
    \/ ClearDatabase /\ UNCHANGED <<stream, workers>>
    \/ WriteResponse /\ UNCHANGED <<stream, workers>>

SpecSched == Init /\ [][NextSched]_vars

----------------------------------------------------------------------------
(* Embedding and distance *)

\* SentenceTransformer.encode, an external function of the text: here the
\* point 1 + the length of the text
Embed(text) == Len(text) + 1

\* _adjust_dimension: the vector cut or padded to the width asked for
adjust_dimension(v, target_dim) == [dim |-> target_dim, pt |-> v.pt]

\* encode that answers at the model's own width whatever width is asked for
encodeOwnWidth(loaded, text, dimension) ==
    [dim |-> vector_dimension, pt |-> IF loaded THEN Embed(text) ELSE 0]

\* RuriEmbedding.encode(text, dimension): the zero vector of the width asked
\* for when the model is not loaded, else the embedding adjusted to that width
encodeTo(loaded, text, dimension) ==
    IF ~loaded
    THEN [dim |-> dimension, pt |-> 0]
    ELSE adjust_dimension([dim |-> vector_dimension, pt |-> Embed(text)], dimension)

\* RuriEmbedding.encode(text): dimension is None, the model's own width
encode(loaded, text) == encodeTo(loaded, text, vector_dimension)

\* f"Context: {context}\nContent: {content}"
Compose(context, content) == <<"Context: ">> \o context \o <<"\nContent: ">> \o content

\* the store's _distance of a row from the query vector, in tenths
StoreDistance(qv, rv) == 10 * (qv.pt - rv.pt) * (qv.pt - rv.pt)

----------------------------------------------------------------------------
(* The pond *)

\* the number of rows search_pond asks the store for
WorkingSet == 2000

\* what callers send as pond entries; the context may be left out
PondEntries ==
    { [id |-> "p1", content |-> <<"a", "b">>, source |-> <<"x">>, context |-> <<"c">>,
       timestamp |-> IsoFormat(1)],
      [id |-> "p2", content |-> <<"B">>, source |-> <<"x">>, context |-> None,
       timestamp |-> IsoFormat(2)],
      [id |-> "p3", content |-> <<"a">>, source |-> <<"y">>, context |-> <<"c">>,
       timestamp |-> IsoFormat(2)] }

\* add_pond_entry: the vector is the embedding of the content (with the
\* context when there is one) or the zero vector when the model is not
\* loaded; a timestamp given as text is parsed; a missing context is ""
AddPondEntry ==
    /\ Reading
    /\ \E e \in PondEntries :
        LET text == IF Truthy(e.context) THEN Compose(e.context, e.content) ELSE e.content
            vector == IF available THEN encode(available, text)
                      ELSE [dim |-> vector_dimension, pt |-> 0]
            row == [id |-> e.id, content |-> e.content, source |-> e.source,
                    context |-> IF e.context = None THEN <<>> ELSE e.context,
                    timestamp |-> IF IsIsoText(e.timestamp)
                                  THEN ParseTimestamp(e.timestamp) ELSE e.timestamp,
                    vector |-> vector]
        IN  /\ Len(pond) < MaxPond
            /\ pond' = Append(pond, row)
            /\ resp' = Result("addPondEntry", e, TRUE)
            /\ UNCHANGED <<tables, state, issues, schedules, available, clock, lastState>>

\* the filters of searchPond: source and context, and the date range as one
\* of a few (dateFrom, dateTo) pairs, a date being ISO text, text that is no
\* date, or left out
NotADate == <<"n", "o">>
DateRanges ==
    { <<None, None>>, <<IsoFormat(2), None>>, <<None, IsoFormat(1)>>,
      <<IsoFormat(2), IsoFormat(2)>>, <<NotADate, None>> }
PondQueries == {<<>>, <<"a">>}
PondFilters ==
    [q : PondQueries,
     source : {None, <<"x">>},
     context : {None, <<"c">>},
     dates : DateRanges,
     limit : 0..MaxLimit,
     offset : 0..MaxOffset]

\* context LIKE '%<context>%': "_" stands for any one character
SqlLike(pattern, text) ==
    \E i \in 0..(Len(text) - Len(pattern)) :
        \A j \in 1..Len(pattern) : pattern[j] = "_" \/ pattern[j] = text[i + j]

\* CAST('<text>' AS TIMESTAMP) raises on text that is no date
CastRaises(v) == Truthy(v) /\ ~IsIsoText(v)

\* evaluating the where clause raises
WhereRaises(f) == CastRaises(f.dates[1]) \/ CastRaises(f.dates[2])

\* the where clause: the conditions of the filters that are given, joined by AND
Where(f, r) ==
    /\ Truthy(f.source) => r.source = f.source
    /\ Truthy(f.context) => SqlLike(f.context, r.context)
    /\ Truthy(f.dates[1]) => r.timestamp >= ParseTimestamp(f.dates[1])
    /\ Truthy(f.dates[2]) => r.timestamp <= ParseTimestamp(f.dates[2])

\* table.search(query_vector).where(...).limit(2000): the rows that satisfy
\* the where clause with their distance, nearest first
SimilarityScan(rows, qv, f) ==
    LET kept == SelectSeq(rows, LAMBDA r : Where(f, r))
        withD == [i \in DOMAIN kept |->
                    [row |-> kept[i], distance |-> StoreDistance(qv, kept[i].vector)]]
    IN  Limit(SortByKey(withD, [i \in DOMAIN withD |-> withD[i].distance]), WorkingSet)

\* table.search().where(...).limit(2000)
FilteredScan(rows, f) ==
    LET kept == SelectSeq(rows, LAMBDA r : Where(f, r))
    IN  Limit([i \in DOMAIN kept |-> [row |-> kept[i]]], WorkingSet)

\* the fall-back of both branches: table.to_pandas(), then the source filter alone
FallbackScan(rows, f) ==
    LET kept == SelectSeq(rows, LAMBDA r : Truthy(f.source) => r.source = f.source)
    IN  [i \in DOMAIN kept |-> [row |-> kept[i]]]

\* the distance column: the store's _distance, or a tenth per rank when the
\* store reports none
WithDistance(df, reported) ==
    [i \in DOMAIN df |->
        [row |-> df[i].row, distance |-> IF reported THEN df[i].distance ELSE i - 1]]

\* a score as the fraction num/den
One == [num |-> 1, den |-> 1]

\* the normalized distance without the inversion
ScoreNotInverted(d, lo, hi) ==
    IF hi > lo THEN [num |-> d - lo, den |-> hi - lo] ELSE One

\* step 3: 1 - (distance - min) / (max - min), and 1.0 when all distances are equal
Score(d, lo, hi) ==
    IF hi > lo THEN [num |-> (hi - lo) - (d - lo), den |-> hi - lo] ELSE One

WithScore(df) ==
    IF df = <<>> THEN df
    ELSE LET ds == [i \in DOMAIN df |-> df[i].distance]
             min_dist == SeqMin(ds)
             max_dist == SeqMax(ds)
         IN  [i \in DOMAIN df |->
                [row |-> df[i].row, distance |-> df[i].distance,
                 score |-> Score(df[i].distance, min_dist, max_dist)]]

\* df.sort_values('timestamp', ascending=False)
SortByTimestamp(df) == SortByKey(df, [i \in DOMAIN df |-> 0 - df[i].row.timestamp])

\* the rows of a page as they are returned: the timestamp as ISO text
Formatted(page) ==
    [i \in DOMAIN page |->
        [page[i] EXCEPT !.row = [@ EXCEPT !.timestamp = IsoFormat(@)]]]

\* the page sorted by timestamp on the vector branch too
PageSortedByTimestamp(df, isVector, f) ==
    LET sorted == SortByTimestamp(df)
        total == Len(sorted)
    IN  [data |-> Formatted(Slice(sorted, f.offset, f.offset + f.limit)),
         meta |-> [total |-> total, limit |-> f.limit, offset |-> f.offset,
                   hasMore |-> f.offset + f.limit < total]]

\* the page with hasMore true up to and including the last row
PageHasMoreInclusive(df, isVector, f) ==
    LET sorted == IF isVector THEN df ELSE SortByTimestamp(df)
        total == Len(sorted)
    IN  [data |-> Formatted(Slice(sorted, f.offset, f.offset + f.limit)),
         meta |-> [total |-> total, limit |-> f.limit, offset |-> f.offset,
                   hasMore |-> f.offset + f.limit <= total]]

\* search_pond from the retrieved rows on: sort, count, slice, format
Page(df, isVector, f) ==
    LET sorted == IF isVector THEN df ELSE SortByTimestamp(df)
        total == Len(sorted)
    IN  [data |-> Formatted(Slice(sorted, f.offset, f.offset + f.limit)),
         meta |-> [total |-> total, limit |-> f.limit, offset |-> f.offset,
                   hasMore |-> f.offset + f.limit < total]]

\* search_pond.  simFails: the store's similarity search is out of order;
\* reported: the store reports a _distance column.  The response carries, as
\* a record of what the handler did, whether a similarity scan was issued,
\* whether the first scan raised, and the retrieved rows before the slice.
SearchPondOf(filters) ==
    /\ Reading
    /\ \E f \in filters :
        LET vector == Truthy(f.q) /\ available
        IN  \E simFails \in (IF vector THEN BOOLEAN ELSE {FALSE}) :
            \E reported \in (IF vector /\ ~simFails /\ ~WhereRaises(f) THEN BOOLEAN ELSE {TRUE}) :
                LET qtext == IF Truthy(f.context) THEN Compose(f.context, f.q) ELSE f.q
                    raised == IF vector THEN simFails \/ WhereRaises(f) ELSE WhereRaises(f)
                    isVector == vector /\ ~raised
                    df == IF raised THEN FallbackScan(pond, f)
                          ELSE IF vector
                               THEN WithScore(WithDistance(
                                        SimilarityScan(pond, encode(available, qtext), f),
                                        reported))
                               ELSE FilteredScan(pond, f)
                IN  /\ resp' = Result("searchPond", f, Page(df, isVector, f)) @@
                               [simScan |-> vector, raised |-> raised, isVector |-> isVector,
                                df |-> df]
                    /\ UNCHANGED <<tables, state, issues, pond, schedules, available,
                                   clock, lastState>>

SearchPond == SearchPondOf(PondFilters)

\* the requests on the pond
NextPond ==
    \/ InitModel /\ UNCHANGED <<stream, workers>>
    \/ AddPondEntry /\ UNCHANGED <<stream, workers>>
    \/ SearchPond /\ UNCHANGED <<stream, workers>>
    \/ ClearDatabase /\ UNCHANGED <<stream, workers>>
    \/ WriteResponse /\ UNCHANGED <<stream, workers>>

SpecPond == Init /\ [][NextPond]_vars

----------------------------------------------------------------------------
(* A pond that has outgrown the working set of search_pond *)

\* the pond after n addPondEntry requests made before the model was loaded,
\* by turns of source "x" and of source "y"
BulkPond(n) ==
    [i \in 1..n |->
        [id |-> "p", content |-> <<"a">>,
         source |-> IF i % 2 = 1 THEN <<"x">> ELSE <<"y">>,
         context |-> <<>>, timestamp |-> 2,
         vector |-> [dim |-> vector_dimension, pt |-> 0]]]

InitBulk ==
    /\ tables = InitTablesNames({})
    /\ state = InitTablesState({}, <<>>, 0)
    /\ issues = <<>>
    /\ pond \in {BulkPond(WorkingSet), BulkPond(WorkingSet + 1)}
    /\ schedules = <<>>
    /\ available = FALSE
    /\ clock = 0
    /\ lastState = <<>>
    /\ resp = Idle
    /\ stream = [read |-> <<>>, written |-> <<>>]
    /\ workers = Initialized

BulkFilters ==
    [q : PondQueries,
     source : {None, <<"x">>},
     context : {None},
     dates : {<<None, None>>, <<IsoFormat(2), IsoFormat(2)>>},
     limit : {0, MaxLimit},
     offset : {0, WorkingSet}]

SearchBulk == SearchPondOf(BulkFilters)

NextBulk ==
    \/ InitModel /\ UNCHANGED <<stream, workers>>
    \/ SearchBulk /\ UNCHANGED <<stream, workers>>
    \/ WriteResponse /\ UNCHANGED <<stream, workers>>

SpecBulk == InitBulk /\ [][NextBulk]_vars

----------------------------------------------------------------------------
(* Issues *)

\* the number of rows search_issues asks the store for
IssuesLimit == 10

\* an empty JSON list; any other value of the model is no list
EmptyList == <<"<list>">>
IsList(v) == v = EmptyList
IsText(v) == v # None /\ v # NonText /\ v # EmptyList

RequiredIssueFields ==
    {"id", "title", "description", "status", "labels", "updates", "relations",
     "source_input_ids"}

Issue(id, title) ==
    [id |-> id, title |-> title, description |-> <<"d">>, status |-> <<"open">>,
     labels |-> EmptyList, updates |-> <<"[]">>, relations |-> <<"[]">>,
     source_input_ids |-> EmptyList]

Without(d, field) == [f \in DOMAIN d \ {field} |-> d[f]]

\* what callers send as issues: three that pass validate_issue, and four
\* that do not
IssueInputs ==
    { Issue("i1", <<"A", "b">>), Issue("i2", <<"b">>), Issue("i3", <<"a", ".">>),
      Without(Issue("i4", <<"a">>), "labels"),
      [Issue("i5", <<"a">>) EXCEPT !.status = <<"done">>],
      [Issue("i6", <<"a">>) EXCEPT !.title = NonText],
      [Issue("i7", <<"a">>) EXCEPT !.labels = <<"x">>] }

\* validate_issue without its check of the status
validate_issueAnyStatus(d) ==
    IF RequiredIssueFields \ DOMAIN d # {} THEN "Missing required fields"
    ELSE IF ~IsText(d.title) THEN "Field 'title' must be a string"
    ELSE IF ~IsText(d.description) THEN "Field 'description' must be a string"
    ELSE IF ~IsList(d.labels) THEN "Field 'labels' must be a list"
    ELSE ""

\* validate_issue: the exception it raises, or "" when it raises none
validate_issue(d) ==
    IF RequiredIssueFields \ DOMAIN d # {} THEN "Missing required fields"
    ELSE IF ~IsText(d.title) THEN "Field 'title' must be a string"
    ELSE IF ~IsText(d.description) THEN "Field 'description' must be a string"
    ELSE IF d.status \notin {<<"open">>, <<"closed">>}
         THEN "Field 'status' must be 'open' or 'closed'"
    ELSE IF ~IsList(d.labels) THEN "Field 'labels' must be a list"
    ELSE ""

\* add_issue: validate, embed title and description, add the row
AddIssue ==
    /\ Reading
    /\ \E d \in IssueInputs :
        /\ Len(issues) < MaxIssues
        /\ IF validate_issue(d) # ""
           THEN /\ resp' = Error("addIssue", d, validate_issue(d))
                /\ UNCHANGED issues
           ELSE /\ issues' = Append(issues,
                       d @@ [vector |-> encode(available, d.title \o <<" ">> \o d.description)])
                /\ resp' = Result("addIssue", d, d.id)
        /\ UNCHANGED <<tables, state, pond, schedules, available, clock, lastState>>

IssueIds == {"i1", "i2", "i4"}

\* get_issue: the first row with the id, or None
GetIssue ==
    /\ Reading
    /\ \E id \in IssueIds :
        LET found == SelectSeq(issues, LAMBDA r : r.id = id)
        IN  /\ resp' = Result("getIssue", id, IF found # <<>> THEN found[1] ELSE None)
            /\ UNCHANGED <<tables, state, issues, pond, schedules, available, clock,
                           lastState>>

\* what callers send as the query of searchIssues: nothing, text, and text
\* with characters that regular expressions read as operators
IssueQueries == {None, <<>>, <<"a">>, <<"b">>, <<".">>, <<"(">>}

\* re.compile raises on an unbalanced parenthesis
ReCompileRaises(pattern) == \E j \in DOMAIN pattern : pattern[j] = "("

\* re.search(pattern, text, re.IGNORECASE) for patterns of letters and ".":
\* "." stands for any one character
ReSearchCI(pattern, text) ==
    \E i \in 0..(Len(text) - Len(pattern)) :
        \A j \in 1..Len(pattern) :
            pattern[j] = "." \/ Lower(pattern[j]) = Lower(text[i + j])

\* _text_search raises: Series.str.contains reads the query as a regular
\* expression
TextSearchRaises(query) == Truthy(query) /\ ReCompileRaises(query)

\* _text_search: every row, or with a query the rows whose title the query matches
text_search(rows, query) ==
    IF Truthy(query)
    THEN SelectSeq(rows, LAMBDA r : ReSearchCI(query, r.title))
    ELSE rows

\* table.search(query_vector).limit(limit).to_list(): the rows with their
\* distance, nearest first
IssueSimilarityScan(rows, qv) ==
    LET withD == [i \in DOMAIN rows |->
                    rows[i] @@ [_distance |-> StoreDistance(qv, rows[i].vector)]]
    IN  Limit(SortByKey(withD, [i \in DOMAIN withD |-> withD[i]._distance]), IssuesLimit)

\* search_issues.  simFails: the store's similarity search is out of order.
\* The response carries, as a record of what the handler did, whether a
\* similarity scan was issued and whether it raised.
SearchIssues ==
    /\ Reading
    /\ \E query \in IssueQueries :
        LET vector == Truthy(query)
        IN  \E simFails \in (IF vector THEN BOOLEAN ELSE {FALSE}) :
                LET req == [query |-> query]
                    trace == [simScan |-> vector, raised |-> vector /\ simFails]
                IN  /\ IF vector /\ ~simFails
                       THEN resp' = Result("searchIssues", req,
                                        IssueSimilarityScan(issues, encode(available, query)))
                                    @@ trace
                       ELSE IF TextSearchRaises(query)
                            THEN resp' = Error("searchIssues", req, "re.error") @@ trace
                            ELSE resp' = Result("searchIssues", req,
                                             text_search(issues, query)) @@ trace
                    /\ UNCHANGED <<tables, state, issues, pond, schedules, available,
                                   clock, lastState>>

\* the requests on the issues
NextIssues ==
    \/ InitModel /\ UNCHANGED <<stream, workers>>
    \/ AddIssue /\ UNCHANGED <<stream, workers>>
    \/ GetIssue /\ UNCHANGED <<stream, workers>>
    \/ SearchIssues /\ UNCHANGED <<stream, workers>>
    \/ ClearDatabase /\ UNCHANGED <<stream, workers>>
    \/ WriteResponse /\ UNCHANGED <<stream, workers>>

SpecIssues == Init /\ [][NextIssues]_vars

\* the requests that store an embedding
NextEmbed ==
    \/ InitModel /\ UNCHANGED <<stream, workers>>
    \/ AddIssue /\ UNCHANGED <<stream, workers>>
    \/ AddPondEntry /\ UNCHANGED <<stream, workers>>
    \/ WriteResponse /\ UNCHANGED <<stream, workers>>

SpecEmbed == Init /\ [][NextEmbed]_vars

----------------------------------------------------------------------------
(* _adjust_dimension on the components of a vector *)

MaxWidth == 3

\* the values a component takes here
Components == {-1, 0, 1, 2}

\* the arrays of 1 to MaxWidth components
Arrays == UNION {[1..n -> Components] : n \in 1..MaxWidth}

RECURSIVE SumOfSquares(_)
\* np.linalg.norm(embeddings) squared
SumOfSquares(v) ==
    IF v = <<>> THEN 0 ELSE v[1] * v[1] + SumOfSquares(Tail(v))

\* an array as it is: the components num, each over the square root of den2 = 1
Unscaled(v) == [num |-> v, den2 |-> 1]

\* embeddings / norm: the components num, each over the square root of den2
Scaled(v, norm2) == [num |-> v, den2 |-> norm2]

\* the cut array divided by the norm of the array before the cut
_adjust_dimensionNormBeforeCut(embeddings, target_dim) ==
    LET current_dim == Len(embeddings)
    IN  IF current_dim = target_dim
        THEN Unscaled(embeddings)
        ELSE IF current_dim > target_dim
        THEN LET norm2 == SumOfSquares(embeddings)
             IN  IF norm2 > 0
                 THEN Scaled(SubSeq(embeddings, 1, target_dim), norm2)
                 ELSE Unscaled(SubSeq(embeddings, 1, target_dim))
        ELSE Unscaled(embeddings \o [i \in 1..(target_dim - current_dim) |-> 0])

\* RuriEmbedding._adjust_dimension: norm > 0 exactly when its square is
_adjust_dimension(embeddings, target_dim) ==
    LET current_dim == Len(embeddings)
    IN  IF current_dim = target_dim
        THEN Unscaled(embeddings)
        ELSE IF current_dim > target_dim
        THEN LET cut == SubSeq(embeddings, 1, target_dim)
                 norm2 == SumOfSquares(cut)
             IN  IF norm2 > 0 THEN Scaled(cut, norm2) ELSE Unscaled(cut)
        ELSE Unscaled(embeddings \o [i \in 1..(target_dim - current_dim) |-> 0])

\* encode on a loaded model, from the array SentenceTransformer.encode returns
AdjustDimension ==
    /\ Reading
    /\ \E embeddings \in Arrays, target_dim \in 1..MaxWidth :
          resp' = Result("adjustDimension",
                         [embeddings |-> embeddings, target_dim |-> target_dim],
                         _adjust_dimension(embeddings, target_dim))
    /\ UNCHANGED <<tables, state, issues, pond, schedules, available, clock, lastState>>

NextAdjust ==
    \/ AdjustDimension /\ UNCHANGED <<stream, workers>>
    \/ WriteResponse /\ UNCHANGED <<stream, workers>>

SpecAdjust == Init /\ [][NextAdjust]_vars

----------------------------------------------------------------------------
(* The worker *)

\* handle_request: a method it does not know raises ValueError, which becomes
\* an error envelope like any other exception
UnknownMethod ==
    /\ Reading
    /\ resp' = Error("unknown", <<>>, "Unknown method")
    /\ UNCHANGED <<tables, state, issues, pond, schedules, available, clock, lastState>>

\* the ids callers give their requests
RequestIds == {1, 2}

\* an error line that carries a null result beside the error
EnvelopeWithBoth(r, id) ==
    IF r.ok
    THEN [jsonrpc |-> "2.0", result |-> r.result, id |-> id]
    ELSE [jsonrpc |-> "2.0", result |-> None,
          error |-> [code |-> r.code, message |-> r.message], id |-> id]

\* the line handle_request returns: result or error, with the id of the request
Envelope(r, id) ==
    IF r.ok
    THEN [jsonrpc |-> "2.0", result |-> r.result, id |-> id]
    ELSE [jsonrpc |-> "2.0", error |-> [code |-> r.code, message |-> r.message], id |-> id]

\* the loop has not left while True: no readline has returned the empty string
Running ==
    IF stream.read = <<>> THEN TRUE ELSE stream.read[Len(stream.read)].kind # "eof"

\* run is at sys.stdin.readline() and a line arrives
CanRead == Reading /\ Running /\ Len(stream.read) < MaxLines

\* run reads the line of a request object; handle_request takes its id
ReadsRequest ==
    \E id \in RequestIds :
        /\ stream' = [stream EXCEPT !.read = Append(@, [kind |-> "request", id |-> id])]
        /\ UNCHANGED workers

\* the request being handled is the one of the line read last
request_id == stream.read[Len(stream.read)].id

\* run writes json.dumps(response): recorded are the id and the members, other
\* than jsonrpc and id, of the line
WritesLine ==
    LET response == Envelope(resp, request_id)
    IN  /\ stream' = [stream EXCEPT !.written =
                         Append(@, [id |-> response.id,
                                    members |-> DOMAIN response \ {"jsonrpc", "id"}])]
        /\ UNCHANGED workers

\* a parse error answered with a line of its own
MalformedLineAnswered ==
    /\ CanRead
    /\ stream' = [stream EXCEPT !.read = Append(@, [kind |-> "malformed"]),
                                !.written = Append(@, [id |-> None, members |-> {"error"}])]
    /\ UNCHANGED <<tables, state, issues, pond, schedules, available, clock, resp, lastState,
                 workers>>

\* run: json.loads raises JSONDecodeError, and the loop continues
MalformedLine ==
    /\ CanRead
    /\ stream' = [stream EXCEPT !.read = Append(@, [kind |-> "malformed"])]
    /\ UNCHANGED <<tables, state, issues, pond, schedules, available, clock, resp, lastState,
                 workers>>

\* run: the line is JSON but no object; request.get raises AttributeError
\* outside handle_request's try, run logs it and the loop continues
OtherJsonLine ==
    /\ CanRead
    /\ stream' = [stream EXCEPT !.read = Append(@, [kind |-> "other"])]
    /\ UNCHANGED <<tables, state, issues, pond, schedules, available, clock, resp, lastState,
                 workers>>

\* run: readline returns the empty string at the end of the input, and the
\* loop is left
EndOfInput ==
    /\ CanRead
    /\ stream' = [stream EXCEPT !.read = Append(@, [kind |-> "eof"])]
    /\ UNCHANGED <<tables, state, issues, pond, schedules, available, clock, resp, lastState,
                 workers>>

\* run with every method of handle_request that is modelled
Next ==
    \/ CanRead /\ Ping /\ ReadsRequest
    \/ CanRead /\ InitModel /\ ReadsRequest
    \/ CanRead /\ AddIssue /\ ReadsRequest
    \/ CanRead /\ GetIssue /\ ReadsRequest
    \/ CanRead /\ SearchIssues /\ ReadsRequest
    \/ CanRead /\ GetState /\ ReadsRequest
    \/ CanRead /\ UpdateState /\ ReadsRequest
    \/ CanRead /\ AddPondEntry /\ ReadsRequest
    \/ CanRead /\ SearchPond /\ ReadsRequest
    \/ CanRead /\ AddSchedule /\ ReadsRequest
    \/ CanRead /\ GetSchedule /\ ReadsRequest
    \/ CanRead /\ UpdateSchedule /\ ReadsRequest
    \/ CanRead /\ SearchSchedules /\ ReadsRequest
    \/ CanRead /\ ClearDatabase /\ ReadsRequest
    \/ CanRead /\ UnknownMethod /\ ReadsRequest
    \/ MalformedLine
    \/ OtherJsonLine
    \/ EndOfInput
    \/ WriteResponse /\ WritesLine

Spec == Init /\ [][Next]_vars

\* SpecState, SpecSched, SpecPond and SpecIssues are Spec with the requests
\* of one table and the stream left unrecorded: a handler reads and writes
\* the rows of its own table only (clear_database empties all of them), so
\* each table goes through the same states under Spec as under the
\* specification of its requests.

\* run with the requests on the state document, on which the lines read and
\* written are recorded
NextRun ==
    \/ CanRead /\ Ping /\ ReadsRequest
    \/ CanRead /\ GetState /\ ReadsRequest
    \/ CanRead /\ UpdateState /\ ReadsRequest
    \/ CanRead /\ UnknownMethod /\ ReadsRequest
    \/ MalformedLine
    \/ OtherJsonLine
    \/ EndOfInput
    \/ WriteResponse /\ WritesLine

SpecRun == Init /\ [][NextRun]_vars

----------------------------------------------------------------------------
(* C1: after initialization the state table holds exactly one row, and its  *)
(* id is "main", whatever requests were handled, failed ones included.      *)
C1_OneMainRow ==
    /\ Len(state) = 1
    /\ state[1].id = "main"

(* C2: getState answers with the content of the most recent successful      *)
(* updateState since initialization or the last clearDatabase, with the     *)
(* empty text when there was none, and never with an error.                 *)
C2_GetStateRoundTrip ==
    resp.op = "getState" => (resp.ok /\ resp.result = lastState)

\* the status getSchedule reports for an id: that of the first row with the id
StoredStatus(rows, id) ==
    IF ScheduleRows(rows, id) = <<>> THEN None ELSE ScheduleRows(rows, id)[1].status

(* C3: once the stored status of a schedule is completed or cancelled, no   *)
(* updateSchedule request changes it: the status only ever moves from active *)
(* to completed or to cancelled.                                             *)
C3_StatusMonotone ==
    [][resp'.op = "updateSchedule" =>
        \A id \in ScheduleIds :
            StoredStatus(schedules, id) \in {<<"completed">>, <<"cancelled">>} =>
                StoredStatus(schedules', id) = StoredStatus(schedules, id)]_vars

----------------------------------------------------------------------------
(* What the claims on the pond speak of *)

SearchAnswered == resp.op = "searchPond" /\ resp.ok

\* the structured filters as the specification states them: equal source,
\* context as a substring, timestamp within the inclusive range
FilterHolds(f, r) ==
    /\ Truthy(f.source) => r.source = f.source
    /\ Truthy(f.context) => IsSubstr(f.context, r.context)
    /\ Truthy(f.dates[1]) => r.timestamp >= ParseTimestamp(f.dates[1])
    /\ Truthy(f.dates[2]) => r.timestamp <= ParseTimestamp(f.dates[2])

RowsOf(df) == [i \in DOMAIN df |-> df[i].row]

(* C4: every searchPond result has hasMore = (offset + limit < total) and    *)
(* min(limit, max(0, total - offset)) rows of data.                          *)
C4_PageShape ==
    SearchAnswered =>
        LET m == resp.result.meta
        IN  /\ m.hasMore = (m.offset + m.limit < m.total)
            /\ Len(resp.result.data) = Min(m.limit, Max(0, m.total - m.offset))

\* a page that ends inside the result set, one that ends on its last row, and
\* one that starts behind it
C4_Witness ==
    /\ SearchAnswered
    /\ resp.result.meta.total = 2
    /\ resp.result.meta.offset = 1
    /\ resp.result.meta.limit = 1
    /\ resp.result.meta.hasMore = FALSE
    /\ Len(resp.result.data) = 1

(* C5: meta.total of searchPond is the number of pond entries that match    *)
(* the query and the filters, whatever limit and offset are and however many *)
(* entries match.  Stated for the requests whose first scan does not raise   *)
(* and that do not filter by the query text (the vector branch ranks by the  *)
(* query, it does not filter by it).                                         *)
C5_TotalIsMatchCount ==
    (SearchAnswered /\ ~resp.raised /\ (Truthy(resp.req.q) => resp.isVector)) =>
        resp.result.meta.total =
            Len(SelectSeq(pond, LAMBDA r : FilterHolds(resp.req, r)))

(* C6: every entry that searchPond returns or counts in meta.total satisfies *)
(* every structured filter of the request, on each branch and fall-back.     *)
C6_FiltersHold ==
    (SearchAnswered /\ ~WhereRaises(resp.req)) =>
        \A i \in DOMAIN resp.df : FilterHolds(resp.req, resp.df[i].row)

(* C7: on the text branch with a non-empty query (model not loaded, or the   *)
(* similarity scan raised) the request succeeds and the result set is        *)
(* exactly the entries that satisfy the filters and contain the query,       *)
(* letter case ignored.                                                      *)
C7_TextBranchSubstring ==
    (resp.op = "searchPond" /\ Truthy(resp.req.q) /\ ~WhereRaises(resp.req)
        /\ (~resp.simScan \/ resp.raised)) =>
        /\ resp.ok
        /\ RowsOf(resp.df) =
              SelectSeq(pond, LAMBDA r : FilterHolds(resp.req, r)
                                           /\ ContainsCI(r.content, resp.req.q))

(* C10: on the vector branch every score of a non-empty retrieved set is in  *)
(* [0, 1]; a row of minimum distance has score 1 and no score is higher; if  *)
(* all distances are equal every score is 1.                                 *)
C10_Scores ==
    (SearchAnswered /\ resp.isVector /\ resp.df # <<>>) =>
        LET df == resp.df
            ds == [i \in DOMAIN df |-> df[i].distance]
        IN  /\ \A i \in DOMAIN df :
                  /\ df[i].score.den > 0
                  /\ 0 <= df[i].score.num
                  /\ df[i].score.num <= df[i].score.den
            /\ \A i \in DOMAIN df :
                  ds[i] = SeqMin(ds) => df[i].score.num = df[i].score.den
            /\ SeqMin(ds) = SeqMax(ds) =>
                  \A i \in DOMAIN df : df[i].score.num = df[i].score.den

\* a retrieved set with two different distances: the nearest row scores 1,
\* the farthest 0
C10_Witness ==
    /\ SearchAnswered
    /\ resp.isVector
    /\ Len(resp.df) >= 2
    /\ \E i, j \in DOMAIN resp.df :
          /\ resp.df[i].distance < resp.df[j].distance
          /\ resp.df[i].score.num = resp.df[i].score.den
          /\ resp.df[j].score.num = 0

(* C8: when the similarity scan raises during searchIssues with a non-empty  *)
(* query, the request succeeds and returns exactly the issues whose title    *)
(* contains the query, letter case ignored.                                  *)
C8_IssuesFallback ==
    (resp.op = "searchIssues" /\ resp.raised /\ Truthy(resp.req.query)) =>
        /\ resp.ok
        /\ resp.result = SelectSeq(issues, LAMBDA r : ContainsCI(r.title, resp.req.query))

(* C9: searchPond and searchIssues issue a similarity scan if and only if    *)
(* the query is non-empty and the embedding model is loaded.                 *)
C9_BranchSelection ==
    /\ resp.op = "searchPond" => (resp.simScan <=> (Truthy(resp.req.q) /\ available))
    /\ resp.op = "searchIssues" =>
          (resp.simScan <=> (Truthy(resp.req.query) /\ available))

\* the half of C9 that is about searchPond
C9_PondBranch ==
    resp.op = "searchPond" => (resp.simScan <=> (Truthy(resp.req.q) /\ available))

----------------------------------------------------------------------------
(* What the claims on validation speak of *)

\* an issue record that fails validation, as the specification states it
IssueFails(d) ==
    \/ RequiredIssueFields \ DOMAIN d # {}
    \/ d.title = None \/ d.title = NonText \/ d.title = EmptyList
    \/ d.description = None \/ d.description = NonText \/ d.description = EmptyList
    \/ d.status \notin {<<"open">>, <<"closed">>}
    \/ d.labels # EmptyList

(* C11: an addIssue request whose record fails validation is answered with  *)
(* an error and leaves the issues table unchanged; no row of the table, and  *)
(* no record that getIssue or searchIssues returns, fails validation.        *)
C11_InvalidIssueRejected ==
    [][/\ (resp'.op = "addIssue" /\ IssueFails(resp'.req)) =>
              (~resp'.ok /\ issues' = issues)
       /\ \A i \in DOMAIN issues' : ~IssueFails(issues'[i])
       /\ (resp'.op = "getIssue" /\ resp'.ok /\ resp'.result # None) =>
              (~IssueFails(resp'.result)
               /\ \E i \in DOMAIN issues : issues[i] = resp'.result)
       /\ (resp'.op = "searchIssues" /\ resp'.ok) =>
              \A k \in DOMAIN resp'.result :
                  /\ ~IssueFails(resp'.result[k])
                  /\ \E i \in DOMAIN issues : issues[i].id = resp'.result[k].id]_vars

\* a record without labels was rejected while the table holds a row
C11_Witness ==
    /\ resp.op = "addIssue"
    /\ ~resp.ok
    /\ "labels" \notin DOMAIN resp.req
    /\ Len(issues) = 1

(* C12: an addSchedule request whose status is not one of active, completed *)
(* and cancelled is answered with an error, and every row of the schedules   *)
(* table has one of these three statuses.                                    *)
C12_ScheduleStatusChecked ==
    LET allowed == {<<"active">>, <<"completed">>, <<"cancelled">>}
    IN  /\ (resp.op = "addSchedule" /\ resp.req.status \notin allowed) => ~resp.ok
        /\ \A i \in DOMAIN schedules : schedules[i].status \in allowed

(* C13: after a successful updateSchedule(id, {status: completed}) of a      *)
(* schedule that addSchedule stored as active, getSchedule(id) returns the   *)
(* status completed and an updated_at strictly greater than created_at,      *)
(* whatever the clock read during the two requests.                          *)
C13_UpdatedAfterCreated ==
    [][(/\ resp'.op = "updateSchedule"
        /\ resp'.ok
        /\ resp'.result = TRUE
        /\ resp'.req.updates = [status |-> <<"completed">>]
        /\ StoredStatus(schedules, resp'.req.id) = <<"active">>) =>
           LET got == get_schedule(schedules', resp'.req.id)
           IN  /\ got.status = <<"completed">>
               /\ ParseTimestamp(got.updated_at) > ParseTimestamp(got.created_at)]_vars

\* the ids of the rows of the schedules table
IdsOf(rows) == {rows[i].id : i \in DOMAIN rows}

(* C14: updateSchedule(id, updates) with any partial field set reports       *)
(* failure and leaves the table unchanged when no row has the id; otherwise  *)
(* the table afterwards holds exactly one row with the id, the old row       *)
(* overlaid with the updates and re-stamped, the rows of the other ids are   *)
(* unchanged and the set of ids is the same.                                 *)
C14_UpdateFrame ==
    [][(resp'.op = "updateSchedule" /\ resp'.ok) =>
        LET id == resp'.req.id
            updates == resp'.req.updates
            old == ScheduleRows(schedules, id)
            new == ScheduleRows(schedules', id)
        IN  IF old = <<>>
            THEN resp'.result = FALSE /\ schedules' = schedules
            ELSE /\ resp'.result = TRUE
                 /\ Len(new) = 1
                 /\ \A f \in DOMAIN old[1] \ {"updated_at"} :
                        new[1][f] = IF f \in DOMAIN updates THEN updates[f] ELSE old[1][f]
                 /\ new[1].updated_at = clock'
                 /\ SelectSeq(schedules', LAMBDA r : r.id # id)
                        = SelectSeq(schedules, LAMBDA r : r.id # id)
                 /\ IdsOf(schedules') = IdsOf(schedules)]_vars

(* C15: the rewrite of the schedules table is atomic: when updateSchedule    *)
(* fails, the table still exists with the rows it had before, and no         *)
(* getSchedule or searchSchedules request fails.                             *)
C15_RewriteAtomic ==
    [][/\ (resp'.op = "updateSchedule" /\ ~resp'.ok) =>
              (SCHEDULES_TABLE \in tables' /\ schedules' = schedules)
       /\ resp'.op \in {"getSchedule", "searchSchedules"} => resp'.ok]_vars

----------------------------------------------------------------------------
(* What the claims on the stream speak of *)

\* the request lines among the lines read
RequestsRead == SelectSeq(stream.read, LAMBDA l : l.kind = "request")

(* C16: a request that names an unknown method is answered with an error     *)
(* whose code is reserved for "method not found", not the code of internal   *)
(* and store errors, and with the id of the request; the loop goes on.       *)
C16_MethodNotFoundCode ==
    resp.op = "unknown" =>
        /\ ~resp.ok
        /\ Envelope(resp, request_id).id = request_id
        /\ Running
        /\ Envelope(resp, request_id).error.code # Error("updateState", NonText, "add").code

C18_OneResponsePerRequest ==
    /\ Len(stream.written) = Len(RequestsRead) - (IF resp = Idle THEN 0 ELSE 1)
    /\ \A k \in DOMAIN stream.written :
          /\ stream.written[k].id = RequestsRead[k].id
          /\ stream.written[k].members \in {{"result"}, {"error"}}
    /\ resp # Idle =>
          /\ stream.read[Len(stream.read)].kind = "request"
          /\ Envelope(resp, request_id).id = request_id
          /\ ("result" \in DOMAIN Envelope(resp, request_id))
                 # ("error" \in DOMAIN Envelope(resp, request_id))
          /\ Running
    /\ (resp.op = "updateState" /\ resp.req = NonText) =>
          "error" \in DOMAIN Envelope(resp, request_id)

\* two requests with different ids answered in their order, the first with
\* the error envelope of a handler's exception, the second with a result
C18_Witness ==
    /\ resp = Idle
    /\ Len(stream.written) = 2
    /\ stream.written[1] = [id |-> 2, members |-> {"error"}]
    /\ stream.written[2] = [id |-> 1, members |-> {"result"}]

----------------------------------------------------------------------------
(* What the claims on the embedding model speak of *)

Widths == {1, vector_dimension, 3 * vector_dimension}
Texts == {<<>>, <<"a">>, <<"a", "b">>}

(* C20: with the model not loaded, encode(text, R) returns the vector of R   *)
(* zeros, and addIssue and addPondEntry succeed and store a zero vector of   *)
(* the configured width.                                                     *)
C20_ZeroVectorWhenUnloaded ==
    ~available =>
        /\ \A text \in Texts, R \in Widths :
               encodeTo(available, text, R) = [dim |-> R, pt |-> 0]
        /\ (resp.op = "addIssue" /\ ~IssueFails(resp.req)) =>
               /\ resp.ok
               /\ issues # <<>>
               /\ issues[Len(issues)].id = resp.req.id
               /\ issues[Len(issues)].vector = [dim |-> vector_dimension, pt |-> 0]
        /\ resp.op = "addPondEntry" =>
               /\ resp.ok
               /\ pond # <<>>
               /\ pond[Len(pond)].id = resp.req.id
               /\ pond[Len(pond)].vector = [dim |-> vector_dimension, pt |-> 0]

\* an issue was added after a pond entry, the model never loaded
C20_Witness ==
    /\ ~available
    /\ resp.op = "addIssue"
    /\ resp.ok
    /\ Len(pond) = 1
    /\ pond[1].vector.pt = 0

----------------------------------------------------------------------------
(* What the later claims on the pond speak of *)

(* C23: a searchPond request whose filters cannot be evaluated as a          *)
(* predicate (a dateFrom or dateTo that is no date) is answered with an      *)
(* error, not with a result page.                                            *)
C23_PredicateErrorReported ==
    (resp.op = "searchPond" /\ WhereRaises(resp.req)) => ~resp.ok

(* C24: no two rows of the issues table have the same id, whatever addIssue *)
(* requests were handled, two with the same id included.                     *)
C24_IssueIdsUnique ==
    \A i, j \in DOMAIN issues : i # j => issues[i].id # issues[j].id

\* the score a is at least the score b
ScoreGeq(a, b) == a.num * b.den >= b.num * a.den

(* C25: on the vector branch the rows of a searchPond page are in the order  *)
(* the store returned them, not sorted again, so their scores do not         *)
(* increase along the page; on the text branch and on the fall-back they are *)
(* in non-increasing order of timestamp.                                     *)
C25_Ordering ==
    SearchAnswered =>
        LET data == resp.result.data
            f == resp.req
        IN  IF resp.isVector
            THEN /\ data = Formatted(Slice(resp.df, f.offset, f.offset + f.limit))
                 /\ \A i \in DOMAIN resp.df : \A j \in DOMAIN resp.df :
                        i < j => resp.df[i].distance <= resp.df[j].distance
                 /\ \A i \in DOMAIN data : \A j \in DOMAIN data :
                        i < j => ScoreGeq(data[i].score, data[j].score)
            ELSE \A i \in DOMAIN data : \A j \in DOMAIN data :
                        i < j => ParseTimestamp(data[i].row.timestamp)
                                    >= ParseTimestamp(data[j].row.timestamp)

\* a page of the vector branch whose nearer row is the older one
C25_Witness ==
    /\ SearchAnswered
    /\ resp.isVector
    /\ Len(resp.result.data) = 2
    /\ ParseTimestamp(resp.result.data[1].row.timestamp)
          < ParseTimestamp(resp.result.data[2].row.timestamp)
    /\ ~ScoreGeq(resp.result.data[2].score, resp.result.data[1].score)

\* a page of the text branch with rows of different timestamps
C25_TextWitness ==
    /\ SearchAnswered
    /\ ~resp.isVector
    /\ Len(resp.result.data) = 2
    /\ ParseTimestamp(resp.result.data[1].row.timestamp)
          > ParseTimestamp(resp.result.data[2].row.timestamp)

\* the page search_pond returns at an offset for the rows retrieved by the
\* request answered last: the store is unchanged, the query and the filters
\* are the same, and so are the rows retrieved
PageAt(offset) == Page(resp.df, resp.isVector, [resp.req EXCEPT !.offset = offset])

RECURSIVE PagesUpTo(_)
\* the pages at the offsets 0, L, ..., k * L, one after the other
PagesUpTo(k) ==
    IF k < 0 THEN <<>> ELSE PagesUpTo(k - 1) \o PageAt(k * resp.req.limit).data

(* C27: for a fixed limit L > 0 the searchPond pages at the offsets 0, L,    *)
(* 2L, ... put one after the other are the full ordered result set of        *)
(* meta.total entries, none returned twice and none skipped, and hasMore is  *)
(* false exactly on and after the last non-empty page.                       *)
C27_PagesPartition ==
    (SearchAnswered /\ resp.req.limit > 0) =>
        LET L == resp.req.limit
            total == resp.result.meta.total
            full == Formatted(IF resp.isVector THEN resp.df ELSE SortByTimestamp(resp.df))
            last == (total + L - 1) \div L - 1
        IN  /\ total = Len(full)
            /\ PagesUpTo(last) = full
            /\ \A k \in 0..(last + 2) :
                  /\ PageAt(k * L).meta.total = total
                  /\ (k <= last) <=> (PageAt(k * L).data # <<>>)
                  /\ PageAt(k * L).meta.hasMore <=> (k < last)
            /\ resp.req.offset % L = 0 =>
                  /\ resp.result = PageAt(resp.req.offset)
                  /\ resp.result.data =
                        SubSeq(full, resp.req.offset + 1, Min(resp.req.offset + L, total))

\* the second and last of two pages of one row each
C27_Witness ==
    /\ SearchAnswered
    /\ resp.isVector
    /\ resp.req.limit = 1
    /\ resp.req.offset = 1
    /\ resp.result.meta.total = 2
    /\ Len(resp.result.data) = 1
    /\ ~resp.result.meta.hasMore

\* the squared norm of a scaled array is 1
UnitNorm(out) == SumOfSquares(out.num) = out.den2

(* C21 as stated: _adjust_dimension returns an array of the requested width  *)
(* R: the input unchanged when R = N; the N components followed by R - N     *)
(* zeros, not renormalized, when R > N; the first R components divided by    *)
(* their norm when R < N, of unit norm unless the norm before the cut was 0. *)
C21_AsStated ==
    resp.op = "adjustDimension" =>
        LET v == resp.req.embeddings
            R == resp.req.target_dim
        IN  (R < Len(v) /\ SumOfSquares(v) # 0) => UnitNorm(resp.result)

(* C21 amended: as above, with unit norm when R < N unless the first R       *)
(* components are all zero, in which case they are returned as they are.     *)
C21_AdjustDimension ==
    resp.op = "adjustDimension" =>
        LET v == resp.req.embeddings
            N == Len(resp.req.embeddings)
            R == resp.req.target_dim
            out == resp.result
            cut == SubSeq(resp.req.embeddings, 1, resp.req.target_dim)
        IN  /\ resp.ok
            /\ Len(out.num) = R
            /\ R = N => out = Unscaled(v)
            /\ R > N =>
                  /\ out.den2 = 1
                  /\ SubSeq(out.num, 1, N) = v
                  /\ \A i \in (N + 1)..R : out.num[i] = 0
            /\ R < N =>
                  /\ out.num = cut
                  /\ SumOfSquares(cut) # 0 =>
                        /\ out.den2 = SumOfSquares(cut)
                        /\ UnitNorm(out)
                  /\ SumOfSquares(cut) = 0 => out = Unscaled(cut)

\* an array cut to a shorter one that is not zero and whose norm is not 1
C21_Witness ==
    /\ resp.op = "adjustDimension"
    /\ resp.req.embeddings = <<1, 2, 2>>
    /\ resp.req.target_dim = 2
    /\ resp.result = [num |-> <<1, 2>>, den2 |-> 5]

\* init_tables has returned in every worker
AllInitialized == \A w \in Workers : workers[w].pc = "done"

(* C22: when two workers initialize concurrently, under every interleaving   *)
(* of their table-list, create-table and insert steps, "table already        *)
(* exists" from create_table is never fatal: no worker raises, every worker  *)
(* that has not finished can take its next step, and once a worker has       *)
(* finished the issues, state, pond and schedules tables all exist.          *)
C22_AlreadyExistsBenign ==
    /\ \A w \in Workers :
          /\ workers[w].pc # "raised"
          /\ workers[w].pc = "done" =>
                {ISSUES_TABLE, STATE_TABLE, POND_TABLE, SCHEDULES_TABLE} \subseteq tables
    /\ ~AllInitialized => ENABLED NextInit

\* both workers are through, and between them they were told "already
\* exists" for each of the four tables
C22_Witness ==
    /\ AllInitialized
    /\ workers[1].warned # {}
    /\ workers[2].warned # {}
    /\ workers[1].warned \cup workers[2].warned =
          {ISSUES_TABLE, STATE_TABLE, POND_TABLE, SCHEDULES_TABLE}

(* C26: after two workers have initialized concurrently against the same     *)
(* empty store, under every interleaving of their steps, the state table     *)
(* holds exactly one row with id "main".                                     *)
C26_OneMainRowAfterInit ==
    AllInitialized => Len(MainRows(state)) = 1

====
